---- MODULE Spec2Model ----
(***************************************************************************)
(* A model of listb's bibliography handling: the class Bibliography of     *)
(* listb/pybibtools.py (construction, the data setter, load, add_fields,   *)
(* del_fields, make_key, merge, union) and the key builder make_key of     *)
(* listb/normalizeTeX.py.                                                  *)
(*                                                                         *)
(* Python dicts are mutable objects that several lists may hold at once,   *)
(* so the entries live in a heap: `heap` maps an address to the entry      *)
(* stored there, and a bibliography's _data is a sequence of addresses.    *)
(* Text is a sequence of one-character strings, so that '-'.join is a      *)
(* real concatenation.                                                     *)
(***************************************************************************)
EXTENDS Integers, Sequences, FiniteSets, TLC

VARIABLES
    heap,      \* address -> entry (a function from field names to text)
    data,      \* bibliography name -> its _data, a sequence of addresses
    op,        \* the last call: its name and arguments
    err,       \* the exception it raised, "none" when it returned
    errInfo,   \* the values the exception's message lists
    preHeap,   \* heap when the last call started
    preData,   \* data when the last call started
    nops,      \* number of calls made so far
    maxCalls,  \* number of calls the run is made of at most
    mr         \* the call of a function of mrtools: arguments, locals, result

bibs == <<heap, data, op, err, errInfo, preHeap, preData, nops, maxCalls>>
vars == <<heap, data, op, err, errInfo, preHeap, preData, nops, maxCalls, mr>>

\* ------------------------------------------------------------------ bounds

\* Calls made on the bibliographies after their construction.
MaxOps == 1

\* Longest list handed to the constructor, the data setter or load in SpecData.
MaxLen == 2

\* Calls made one after the other in SpecSeq.
MaxSeq == 2

\* Longest list and largest chunk size handed to chunk_list.
MaxList == 5
MaxChunk == 3

\* Most pages a search result is split into.
MaxPages == 8

\* Names in an author field, and pieces a title is made of.
MaxAuthors == 2
MaxPieces == 3

\* ------------------------------------------------------------------- text

Range(s) == {s[i] : i \in 1..Len(s)}

\* F applied to the value of v: v is evaluated once, as Python evaluates an
\* assignment's right-hand side once.
Let(v, F(_)) == CHOOSE r \in {F(x) : x \in {v}} : TRUE

RECURSIVE join(_, _)
\* sep.join(parts) of Python
join(sep, parts) ==
    IF parts = <<>> THEN <<>>
    ELSE IF Len(parts) = 1 THEN parts[1]
    ELSE parts[1] \o sep \o join(sep, Tail(parts))

\* ---------------------------------------------------------------- entries

MERGEKEY == "KEY"

Bibs == {"a", "b", "r"}

NoEntry == [f \in {} |-> <<>>]

\* dict.update: the fields of e2 laid over those of e
update(e, e2) ==
    [f \in (DOMAIN e) \cup (DOMAIN e2) |-> IF f \in DOMAIN e2 THEN e2[f] ELSE e[f]]

\* del e[k] for every k of fields that e has
del_keys(e, fields) == [f \in (DOMAIN e) \ fields |-> e[f]]

\* record.get(key, '')
get(record, key) == IF key \in DOMAIN record THEN record[key] ELSE <<>>

make_key_mut_nosep(record, keys) ==
    join(<<>>, [i \in 1..Len(keys) |-> get(record, keys[i])])

\* normalizetex.make_key: '-'.join([record.get(key, '') for key in keys])
make_key(record, keys) ==
    join(<<"-">>, [i \in 1..Len(keys) |-> get(record, keys[i])])

\* ------------------------------------------------------------- validation

\* An element of a list handed to the setter: a dict (with its fields) or not.
Dict(rec) == [isdict |-> TRUE, rec |-> rec]
NonDict == [isdict |-> FALSE, rec |-> NoEntry]

\* The argument of the setter: a list of elements, or some other object.
ListArg(items) == [items |-> items, kind |-> "list", truthy |-> items # <<>>]
OtherArg(truthy) == [items |-> <<>>, kind |-> "other", truthy |-> truthy]

\* Bibliography._test_entry
test_entry(entry) ==
    /\ entry.isdict
    /\ "ENTRYTYPE" \in DOMAIN entry.rec
    /\ "ID" \in DOMAIN entry.rec

\* ids = [e['ID'] for e in data]; len(ids) > len(set(ids))
has_duplicate_ids(items) ==
    LET ids == [i \in 1..Len(items) |-> items[i].rec["ID"]]
    IN Len(ids) > Cardinality(Range(ids))

data_setter_mut_assignfirst(arg) ==
    IF arg.kind # "list"
    THEN [assigned |-> TRUE, err |-> "TypeError", info |-> <<>>]
    ELSE IF ~ \A i \in 1..Len(arg.items) : test_entry(arg.items[i])
    THEN [assigned |-> TRUE, err |-> "StructError", info |-> <<>>]
    ELSE IF has_duplicate_ids(arg.items)
    THEN [assigned |-> TRUE, err |-> "DupIdError", info |-> <<>>]
    ELSE [assigned |-> TRUE, err |-> "none", info |-> <<>>]

data_setter_mut_dupfirst(arg) ==
    IF arg.kind # "list"
    THEN [assigned |-> FALSE, err |-> "TypeError", info |-> <<>>]
    ELSE IF /\ \A i \in 1..Len(arg.items) : "ID" \in DOMAIN arg.items[i].rec
            /\ has_duplicate_ids(arg.items)
    THEN [assigned |-> FALSE, err |-> "DupIdError", info |-> <<>>]
    ELSE IF ~ \A i \in 1..Len(arg.items) : test_entry(arg.items[i])
    THEN [assigned |-> FALSE, err |-> "StructError", info |-> <<>>]
    ELSE [assigned |-> TRUE, err |-> "none", info |-> <<>>]

data_setter_mut_listids(arg) ==
    IF arg.kind # "list"
    THEN [assigned |-> FALSE, err |-> "TypeError", info |-> <<>>]
    ELSE IF ~ \A i \in 1..Len(arg.items) : test_entry(arg.items[i])
    THEN [assigned |-> FALSE, err |-> "StructError", info |-> <<>>]
    ELSE IF has_duplicate_ids(arg.items)
    THEN [assigned |-> FALSE,
          err |-> "DupIdError",
          info |-> SelectSeq([i \in 1..Len(arg.items) |-> arg.items[i].rec["ID"]],
                             LAMBDA k : Cardinality({j \in 1..Len(arg.items) :
                                                     arg.items[j].rec["ID"] = k}) > 1)]
    ELSE [assigned |-> TRUE, err |-> "none", info |-> <<>>]

\* The setter of Bibliography.data: what it raises (with the values its
\* message lists: none, both RuntimeError messages are fixed texts) and
\* whether it reaches the assignment self._data = data.
data_setter(arg) ==
    IF arg.kind # "list"
    THEN [assigned |-> FALSE, err |-> "TypeError", info |-> <<>>]
    ELSE IF ~ \A i \in 1..Len(arg.items) : test_entry(arg.items[i])
    THEN [assigned |-> FALSE, err |-> "StructError", info |-> <<>>]
    ELSE IF has_duplicate_ids(arg.items)
    THEN [assigned |-> FALSE, err |-> "DupIdError", info |-> <<>>]
    ELSE [assigned |-> TRUE, err |-> "none", info |-> <<>>]

\* ------------------------------------------------------------------- heap

\* The entries of bibliography x, in stored order, by value.
Recs(h, d, x) == [i \in 1..Len(d[x]) |-> h[d[x][i]]]

\* The list's dicts become objects of the heap, at fresh addresses.
Alloc(h, recs) == h \o recs
NewAddrs(h, recs) == [i \in 1..Len(recs) |-> Len(h) + i]

LiveSeq(d) == d["a"] \o d["b"] \o d["r"]

Rank(s, p) ==
    LET i == CHOOSE i \in 1..Len(s) : s[i] = p /\ \A j \in 1..(i - 1) : s[j] # p
    IN Cardinality({s[j] : j \in 1..i})

\* Objects no bibliography refers to are collected; the others are numbered
\* in the order a, b, r reach them.
CollectHeap(h, d) ==
    LET s == LiveSeq(d)
    IN [k \in 1..Cardinality(Range(s)) |-> h[CHOOSE p \in Range(s) : Rank(s, p) = k]]

CollectData(d) ==
    LET s == LiveSeq(d)
    IN [x \in Bibs |-> [i \in 1..Len(d[x]) |-> Rank(s, d[x][i])]]

\* ----------------------------------------------------------- the last call

NoFunc == [fld |-> "", keys |-> <<>>, kind |-> "none", val |-> <<>>]

Call(name, self) ==
    [arg |-> OtherArg(FALSE), fields |-> {}, func |-> NoFunc, keep_key |-> FALSE,
     key |-> "", keys |-> <<>>, name |-> name, other |-> "", reader |-> "",
     self |-> self, union |-> FALSE]

\* No function of mrtools is called.
NoCall == [fn |-> "none"]

\* Another call may be made.
CanCall == nops < maxCalls

Record(call, e, info) ==
    /\ nops' = nops + 1
    /\ maxCalls' = maxCalls
    /\ mr' = mr
    /\ op' = call
    /\ err' = e
    /\ errInfo' = info
    /\ preHeap' = heap
    /\ preData' = data

\* The state after a call that left heap h and bindings d.
Commit(h, d) ==
    \E hv \in {h}, dv \in {d} :
        /\ heap' = CollectHeap(hv, dv)
        /\ data' = CollectData(dv)

\* ----------------------------------------------- construction, data, load

ItemRecs(arg) == [i \in 1..Len(arg.items) |-> arg.items[i].rec]

\* self.data = arg on the bibliography bound to x, within the call `name`
\* that was given the argument `given` (and, for load, the reader).
Assign(x, arg, name, given, reader) ==
    CanCall /\ \E res \in {data_setter(arg)} :
       /\ Record([Call(name, x) EXCEPT !.arg = given, !.reader = reader],
                 res.err, res.info)
       /\ IF res.assigned
          THEN Commit(Alloc(heap, ItemRecs(arg)),
                      [data EXCEPT ![x] = NewAddrs(heap, ItemRecs(arg))])
          ELSE UNCHANGED <<heap, data>>

\* bib.data = arg
SetData(x, arg) == Assign(x, arg, "set_data", arg, "")

\* x = Bibliography(arg): a falsy argument is replaced by [], and x is bound
\* to the new object only when __init__ returns.
Construct(x, arg) ==
    Assign(x, IF arg.truthy THEN arg ELSE ListArg(<<>>), "init", arg, "")

READERS == {"bib", "yaml"}

\* bib.load(handle, reader): READERS[reader] is looked up first, then the
\* reader's output goes through the setter.
Load(x, reader, arg) ==
    IF reader \in READERS
    THEN Assign(x, arg, "load", arg, reader)
    ELSE /\ CanCall
         /\ Record([Call("load", x) EXCEPT !.arg = arg, !.reader = reader],
                   "KeyError", <<>>)
         /\ UNCHANGED <<heap, data>>

\* ----------------------------------------------------------- normalizeTeX

\* A text is a sequence of characters. A character is written as itself,
\* but for the backslash, the grave accent and the letters outside ASCII,
\* which are named.
UpperCase == <<"A", "B", "H", "U">>
LowerCase == <<"a", "b", "h", "u", "d", "e", "i", "j", "l", "n", "o", "r", "s", "v", "w">>
Digits == {"1", "2"}
Letters == Range(UpperCase) \cup Range(LowerCase)
NonAscii == {"eacute", "aring", "oslash", "szlig"}

\* \s and \w of re, on the characters above
IsSpace(c) == c = " "
IsWord(c) == c \in Letters \cup Digits \cup NonAscii \cup {"_"}

\* ord(c) of the characters that are left in a normalized name
CodePoint(c) ==
    CASE c = "1" -> 49 [] c = "2" -> 50
      [] c = "A" -> 65 [] c = "B" -> 66 [] c = "H" -> 72 [] c = "U" -> 85
      [] c = "a" -> 97 [] c = "b" -> 98 [] c = "d" -> 100 [] c = "e" -> 101
      [] c = "h" -> 104 [] c = "i" -> 105 [] c = "j" -> 106 [] c = "l" -> 108
      [] c = "n" -> 110 [] c = "o" -> 111 [] c = "r" -> 114 [] c = "s" -> 115
      [] c = "u" -> 117 [] c = "v" -> 118 [] c = "w" -> 119

\* c.lower()
lower_char(c) ==
    IF \E i \in 1..Len(UpperCase) : UpperCase[i] = c
    THEN LowerCase[CHOOSE i \in 1..Len(UpperCase) : UpperCase[i] = c]
    ELSE c

\* s.lower()
lower(s) == [i \in 1..Len(s) |-> lower_char(s[i])]

\* s[i:] starts with pat
starts_at(s, i, pat) ==
    /\ i + Len(pat) - 1 <= Len(s)
    /\ \A k \in 1..Len(pat) : s[i + k - 1] = pat[k]

\* pat in s
contains(s, pat) == \E i \in 1..Len(s) : starts_at(s, i, pat)

\* s[i:], s[:i-1] with positions counted from 1
from(s, i) == SubSeq(s, i, Len(s))
upto(s, i) == SubSeq(s, 1, i)

RECURSIVE lstrip(_)
lstrip(s) == IF s # <<>> /\ IsSpace(s[1]) THEN lstrip(Tail(s)) ELSE s

RECURSIVE rstrip(_)
rstrip(s) == IF s # <<>> /\ IsSpace(s[Len(s)]) THEN rstrip(upto(s, Len(s) - 1)) ELSE s

\* s.strip()
strip(s) == lstrip(rstrip(s))

RECURSIVE split(_, _)
\* s.split(sep): the separators are found from the left, without overlap
split(s, sep) ==
    LET hits == {i \in 1..Len(s) : starts_at(s, i, sep)}
    IN IF hits = {} THEN <<s>>
       ELSE LET i == CHOOSE h \in hits : \A g \in hits : h <= g
            IN <<upto(s, i - 1)>> \o split(from(s, i + Len(sep)), sep)

\* s.replace(pat, sub)
replace(s, pat, sub) == join(sub, split(s, pat))

RECURSIVE words(_)
\* s.split(): the maximal runs without whitespace
words(s) ==
    LET t == lstrip(s)
    IN IF t = <<>> THEN <<>>
       ELSE LET ends == {i \in 1..Len(t) : IsSpace(t[i])}
                n == IF ends = {} THEN Len(t) + 1
                     ELSE CHOOSE h \in ends : \A g \in ends : h <= g
            IN <<upto(t, n - 1)>> \o words(from(t, n))

\* a < b of two str: by code points at the first place where they differ,
\* a proper prefix first
str_less(a, b) ==
    LET differ == {i \in 1..Len(a) : i <= Len(b) /\ a[i] # b[i]}
    IN IF differ = {} THEN Len(a) < Len(b)
       ELSE LET i == CHOOSE h \in differ : \A g \in differ : h <= g
            IN CodePoint(a[i]) < CodePoint(b[i])

RECURSIVE sorted(_)
\* list.sort() on a list of str (insertion into the sorted rest)
sorted(l) ==
    IF l = <<>> THEN <<>>
    ELSE LET rest == sorted(Tail(l))
             n == Cardinality({i \in 1..Len(rest) : ~ str_less(l[1], rest[i])})
         IN upto(rest, n) \o <<l[1]>> \o from(rest, n + 1)

\* latex_to_ascii.dict, in its order
latex_dict ==
    << <<<<"backslash", "'">>, <<>>>>,      <<<<"backslash", "l">>, <<"l">>>>,
       <<<<"backslash", "grave">>, <<>>>>,      <<<<"backslash", "^">>, <<>>>>,
       <<<<"backslash", "H">>, <<>>>>,      <<<<"backslash", "~">>, <<>>>>,
       <<<<"backslash", "c">>, <<>>>>,      <<<<"backslash", "k">>, <<>>>>,
       <<<<"backslash", "=">>, <<>>>>,      <<<<"backslash", "b">>, <<>>>>,
       <<<<"backslash", ".">>, <<>>>>,      <<<<"backslash", "d">>, <<>>>>,
       <<<<"backslash", "r">>, <<>>>>,      <<<<"backslash", "a", "a">>, <<"aring">>>>,
       <<<<"backslash", "u">>, <<>>>>,      <<<<"backslash", "v">>, <<>>>>,
       <<<<"backslash", "t">>, <<>>>>,      <<<<"backslash", "o">>, <<"oslash">>>>,
       <<<<"backslash", "s", "s">>, <<"szlig">>>> >>

RECURSIVE replace_range(_, _, _, _)
\* The replacements dict[lo], .., dict[hi] made on tex one after the other.
replace_range(tex, dict, lo, hi) ==
    IF lo > hi THEN tex
    ELSE IF lo = hi THEN replace(tex, dict[lo][1], dict[lo][2])
    ELSE Let(replace_range(tex, dict, lo, (lo + hi) \div 2), LAMBDA t :
             replace_range(t, dict, (lo + hi) \div 2 + 1, hi))

\* for pat, sub in latex_to_ascii.dict.items(): tex = tex.replace(pat, sub)
replace_all(tex, dict) == replace_range(tex, dict, 1, Len(dict))

\* bibtexparser's latex_to_unicode on these characters: no command of its
\* table is left after the replacements above, the braces are dropped.
latex_to_unicode(tex) == SelectSeq(tex, LAMBDA c : c \notin {"{", "}"})

\* unicodedata.normalize('NFD', c).encode('ascii', 'ignore'): an accented
\* letter becomes its base letter, a letter without decomposition is lost.
ascii_char(c) ==
    IF c = "eacute" THEN <<"e">>
    ELSE IF c = "aring" THEN <<"a">>
    ELSE IF c \in NonAscii THEN <<>>
    ELSE <<c>>

ascii(uni) ==
    LET kept == SelectSeq(uni, LAMBDA c : ascii_char(c) # <<>>)
    IN [i \in 1..Len(kept) |-> ascii_char(kept[i])[1]]

latex_to_ascii(tex) == ascii(latex_to_unicode(replace_all(tex, latex_dict)))

\* re.compile(r'\s|\W|_').sub('', s): only letters and digits are kept
sub_WS(s) == SelectSeq(s, LAMBDA c : IsWord(c) /\ c # "_" /\ ~ IsSpace(c))

\* The place of the first c in s, or 0.
index_of(s, c) ==
    IF \E i \in 1..Len(s) : s[i] = c
    THEN CHOOSE i \in 1..Len(s) : s[i] = c /\ \A k \in 1..(i - 1) : s[k] # c
    ELSE 0

RECURSIVE sub_PAT(_)
\* re.compile(r'\s*\(.*?\)\s*').sub('', s): a parenthesis up to the first
\* closing one goes with the whitespace around it
sub_PAT(s) ==
    LET matches == {i \in 1..Len(s) :
                       LET t == lstrip(from(s, i))
                       IN t # <<>> /\ t[1] = "(" /\ index_of(t, ")") > 0}
    IN IF matches = {} THEN s
       ELSE LET i == CHOOSE h \in matches : \A g \in matches : h <= g
                t == lstrip(from(s, i))
            IN upto(s, i - 1) \o sub_PAT(lstrip(from(t, index_of(t, ")") + 1)))

_norm_author(author) == sub_WS(sub_PAT(latex_to_ascii(author)))

Juniors == {<<"j", "n", "r">>, <<"j", "r">>, <<"j", "u", "n", "i", "o", "r">>}
Particles == {<<"b", "e", "n">>, <<"v", "a", "n">>, <<"d", "e", "r">>,
              <<"d", "e">>, <<"l", "a">>, <<"l", "e">>}

RECURSIVE particles_loop(_, _, _)
\* for item in firsts: if item in [...]: last = firsts.pop() + ' ' + last
\* (the list shrinks under the loop)
particles_loop(firsts, idx, last) ==
    IF idx > Len(firsts) THEN [firsts |-> firsts, last |-> last]
    ELSE IF firsts[idx] \in Particles
    THEN particles_loop(upto(firsts, Len(firsts) - 1), idx + 1,
                        firsts[Len(firsts)] \o <<" ">> \o last)
    ELSE particles_loop(firsts, idx + 1, last)

getname_mut_firstword(namestring) ==
    LET comma == contains(namestring, <<",">>)
        namelist == IF comma THEN split(namestring, <<",">>) ELSE words(namestring)
        last0 == strip(namelist[1])
        firsts0 == IF comma THEN words(namelist[2]) ELSE Tail(namelist)
    IN [ok |-> TRUE, val |-> last0 \o <<",", " ">> \o join(<<" ">>, firsts0)]

\* One turn of bibtexparser's getnames on a stripped, non-empty name:
\* 'Last, First' or 'First Last' to 'Last, First'. ok = FALSE: IndexError
\* (a junior with nothing before it).
getname(namestring) ==
    LET comma == contains(namestring, <<",">>)
        namelist == IF comma THEN split(namestring, <<",">>) ELSE words(namestring)
        last0 == IF comma THEN strip(namelist[1]) ELSE namelist[Len(namelist)]
        firsts0 == IF comma THEN words(namelist[2])
                   ELSE [i \in 1..(Len(namelist) - 1) |->
                            strip(replace(namelist[i], <<".">>, <<".", " ">>))]
    IN IF last0 \in Juniors /\ firsts0 = <<>> THEN [ok |-> FALSE, val |-> <<>>]
       ELSE LET last1 == IF last0 \in Juniors THEN firsts0[Len(firsts0)] ELSE last0
                firsts1 == IF last0 \in Juniors THEN upto(firsts0, Len(firsts0) - 1)
                           ELSE firsts0
                r == particles_loop(firsts1, 1, last1)
            IN [ok |-> TRUE, val |-> r.last \o <<",", " ">> \o join(<<" ">>, r.firsts)]

RECURSIVE getnames(_)
\* bc.getnames(names): empty names are skipped
getnames(names) ==
    IF names = <<>> THEN [ok |-> TRUE, val |-> <<>>]
    ELSE IF strip(names[1]) = <<>> THEN getnames(Tail(names))
    ELSE Let(getname(strip(names[1])), LAMBDA n :
             IF ~ n.ok THEN [ok |-> FALSE, val |-> <<>>]
             ELSE Let(getnames(Tail(names)), LAMBDA rest :
                      IF ~ rest.ok THEN rest
                      ELSE [ok |-> TRUE, val |-> <<n.val>> \o rest.val]))

AuthorSep == <<" ", "a", "n", "d", " ">>

norm_author_mut_nosort(record) ==
    IF "author" \notin DOMAIN record THEN [err |-> "KeyError", val |-> <<>>]
    ELSE Let(getnames(split(record["author"], AuthorSep)), LAMBDA authors :
             IF ~ authors.ok THEN [err |-> "IndexError", val |-> <<>>]
             ELSE [err |-> "none",
                   val |-> join(<<" ">>,
                                [i \in 1..Len(authors.val) |->
                                    _norm_author(split(authors.val[i], <<",">>)[1])])])

\* norm_author(record): the sorted last names, or the error it raises
norm_author(record) ==
    IF "author" \notin DOMAIN record THEN [err |-> "KeyError", val |-> <<>>]
    ELSE Let(getnames(split(record["author"], AuthorSep)), LAMBDA authors :
             IF ~ authors.ok THEN [err |-> "IndexError", val |-> <<>>]
             ELSE [err |-> "none",
                   val |-> join(<<" ">>,
                                sorted([i \in 1..Len(authors.val) |->
                                    _norm_author(split(authors.val[i], <<",">>)[1])]))])

RECURSIVE sub_formula(_)
\* re.compile(r'\$[\w\W]*?\$').sub('', s): from a $ to the next one
sub_formula(s) ==
    LET i == index_of(s, "$")
    IN IF i = 0 \/ index_of(from(s, i + 1), "$") = 0 THEN s
       ELSE upto(s, i - 1)
               \o sub_formula(from(s, i + index_of(from(s, i + 1), "$") + 1))

norm_title_mut_nolower(record) ==
    IF "title" \notin DOMAIN record THEN [err |-> "KeyError", val |-> <<>>]
    ELSE [err |-> "none",
          val |-> sub_WS(latex_to_ascii(sub_formula(record["title"])))]

\* norm_title(record), or the error it raises
norm_title(record) ==
    IF "title" \notin DOMAIN record THEN [err |-> "KeyError", val |-> <<>>]
    ELSE [err |-> "none",
          val |-> sub_WS(lower(latex_to_ascii(sub_formula(record["title"]))))]

\* ------------------------------------------------- add_fields, del_fields

\* The unary functions handed to add_fields: lambda e: val, lambda e: e[fld]
\* (KeyError when the entry has no such field), make_key's
\* lambda r: make_key(r, *keys), norm_author and norm_title.
ConstFunc(val) == [fld |-> "", keys |-> <<>>, kind |-> "const", val |-> val]
FieldFunc(fld) == [fld |-> fld, keys |-> <<>>, kind |-> "field", val |-> <<>>]
KeyFunc(keys) == [fld |-> "", keys |-> keys, kind |-> "key", val |-> <<>>]
NormAuthorFunc == [fld |-> "", keys |-> <<>>, kind |-> "norm_author", val |-> <<>>]
NormTitleFunc == [fld |-> "", keys |-> <<>>, kind |-> "norm_title", val |-> <<>>]

\* func(entry): the value, or ok = FALSE and the error the call raises
Apply(func, entry) ==
    IF func.kind = "const" THEN [err |-> "none", ok |-> TRUE, val |-> func.val]
    ELSE IF func.kind = "key"
    THEN [err |-> "none", ok |-> TRUE, val |-> make_key(entry, func.keys)]
    ELSE IF func.kind \in {"norm_author", "norm_title"}
    THEN Let(IF func.kind = "norm_author" THEN norm_author(entry) ELSE norm_title(entry),
             LAMBDA r : [err |-> r.err, ok |-> r.err = "none", val |-> r.val])
    ELSE IF func.fld \in DOMAIN entry
    THEN [err |-> "none", ok |-> TRUE, val |-> entry[func.fld]]
    ELSE [err |-> "KeyError", ok |-> FALSE, val |-> <<>>]

RECURSIVE add_field_mut_setdefault(_, _, _, _, _)
add_field_mut_setdefault(h, addrs, i, key, func) ==
    IF i > Len(addrs) THEN [err |-> "none", heap |-> h]
    ELSE Let(Apply(func, h[addrs[i]]), LAMBDA r :
             IF ~ r.ok THEN [err |-> r.err, heap |-> h]
             ELSE Let([h EXCEPT ![addrs[i]] = update([f \in {key} |-> r.val], @)],
                      LAMBDA h1 : add_field_mut_setdefault(h1, addrs, i + 1, key, func)))

RECURSIVE add_field(_, _, _, _, _)
\* for entry in self: entry.update({key: func(entry)}), from the i-th entry on
add_field(h, addrs, i, key, func) ==
    IF i > Len(addrs) THEN [err |-> "none", heap |-> h]
    ELSE Let(Apply(func, h[addrs[i]]), LAMBDA r :
             IF ~ r.ok THEN [err |-> r.err, heap |-> h]
             ELSE Let([h EXCEPT ![addrs[i]] = update(@, [f \in {key} |-> r.val])],
                      LAMBDA h1 : add_field(h1, addrs, i + 1, key, func)))

RECURSIVE add_fields(_, _, _)
\* Bibliography.add_fields(**kargs): kargs in the order of the call
add_fields(h, addrs, kargs) ==
    IF kargs = <<>> THEN [err |-> "none", heap |-> h]
    ELSE Let(add_field(h, addrs, 1, kargs[1].key, kargs[1].func), LAMBDA r :
             IF r.err # "none" THEN r
             ELSE add_fields(r.heap, addrs, Tail(kargs)))

\* Bibliography.del_fields(*fields)
del_fields(h, addrs, fields) ==
    [p \in DOMAIN h |-> IF p \in Range(addrs) THEN del_keys(h[p], fields) ELSE h[p]]

\* --------------------------------------------------------------- make_key

\* [k for k in keys if keys.count(k) > 1]
duplicates(ks) ==
    SelectSeq(ks, LAMBDA k : Cardinality({j \in 1..Len(ks) : ks[j] = k}) > 1)

bib_make_key_mut_nonempty(h, addrs, keys) ==
    Let(add_fields(h, addrs, <<[func |-> KeyFunc(keys), key |-> MERGEKEY]>>).heap,
        LAMBDA h1 :
            Let(duplicates(SelectSeq([i \in 1..Len(addrs) |-> h1[addrs[i]][MERGEKEY]],
                                     LAMBDA k : k # <<>>)),
                LAMBDA dup : [err |-> IF dup # <<>> THEN "DupKeyError" ELSE "none",
                              heap |-> h1,
                              info |-> dup]))

bib_make_key_mut_checkfirst(h, addrs, keys) ==
    Let(add_fields(h, addrs, <<[func |-> KeyFunc(keys), key |-> MERGEKEY]>>).heap,
        LAMBDA h1 :
            Let(duplicates([i \in 1..Len(addrs) |-> h1[addrs[i]][MERGEKEY]]),
                LAMBDA dup : [err |-> IF dup # <<>> THEN "DupKeyError" ELSE "none",
                              heap |-> IF dup # <<>> THEN h ELSE h1,
                              info |-> dup]))

\* Bibliography.make_key(*keys): the key is stored on every entry, then the
\* duplicates are looked for.
bib_make_key(h, addrs, keys) ==
    Let(add_fields(h, addrs, <<[func |-> KeyFunc(keys), key |-> MERGEKEY]>>).heap,
        LAMBDA h1 :
            Let(duplicates([i \in 1..Len(addrs) |-> h1[addrs[i]][MERGEKEY]]),
                LAMBDA dup : [err |-> IF dup # <<>> THEN "DupKeyError" ELSE "none",
                              heap |-> h1,
                              info |-> dup]))

\* ------------------------------------------------------------------ merge

\* A dict from merge keys to entries, as the sequence of its items in
\* insertion order: [addr |-> p, key |-> k].
has_key(d, k) == \E i \in 1..Len(d) : d[i].key = k
lookup(d, k) == d[CHOOSE i \in 1..Len(d) : d[i].key = k].addr

\* d[k] = p: a known key keeps its place, a new one goes to the end
dict_set(d, k, p) ==
    IF has_key(d, k)
    THEN [i \in 1..Len(d) |-> IF d[i].key = k THEN [addr |-> p, key |-> k] ELSE d[i]]
    ELSE Append(d, [addr |-> p, key |-> k])

RECURSIVE dict_update(_, _)
\* d.update(d2)
dict_update(d, d2) ==
    IF d2 = <<>> THEN d
    ELSE Let(dict_set(d, d2[1].key, d2[1].addr), LAMBDA d1 : dict_update(d1, Tail(d2)))

\* {e[MERGEKEY]: e for e in bib}
by_key(h, addrs) ==
    dict_update(<<>>, [i \in 1..Len(addrs) |-> [addr |-> addrs[i],
                                                 key |-> h[addrs[i]][MERGEKEY]]])

RECURSIVE overlay(_, _, _, _)
\* for key, entry in joined.items(): entry.update(other_by_key[key]) when
\* other has the key, then entry.update(self_by_key[key]) when self has it
overlay(h, joined, self_by_key, other_by_key) ==
    IF joined = <<>> THEN h
    ELSE LET k == joined[1].key
             p == joined[1].addr
         IN Let(IF has_key(other_by_key, k)
                THEN [h EXCEPT ![p] = update(@, h[lookup(other_by_key, k)])]
                ELSE h,
                LAMBDA h1 :
                    Let(IF has_key(self_by_key, k)
                        THEN [h1 EXCEPT ![p] = update(@, h1[lookup(self_by_key, k)])]
                        ELSE h1,
                        LAMBDA h2 : overlay(h2, Tail(joined), self_by_key, other_by_key)))

Raised(h, e, info) == [err |-> e, heap |-> h, info |-> info, ok |-> FALSE, result |-> <<>>]

merge_result_mut_keepkey(h, joined) ==
    LET result == [i \in 1..Len(joined) |-> joined[i].addr]
    IN Let(data_setter(ListArg([i \in 1..Len(result) |-> Dict(h[result[i]])])),
           LAMBDA v :
               IF v.err # "none" THEN Raised(h, v.err, v.info)
               ELSE [err |-> "none", heap |-> h,
                     info |-> <<>>, ok |-> TRUE, result |-> result])

\* bib = Bibliography(list(joined.values())); bib.del_fields(self.MERGEKEY)
merge_result(h, joined) ==
    LET result == [i \in 1..Len(joined) |-> joined[i].addr]
    IN Let(data_setter(ListArg([i \in 1..Len(result) |-> Dict(h[result[i]])])),
           LAMBDA v :
               IF v.err # "none" THEN Raised(h, v.err, v.info)
               ELSE [err |-> "none", heap |-> del_fields(h, result, {MERGEKEY}),
                     info |-> <<>>, ok |-> TRUE, result |-> result])

merge_join_mut_rightwins(h, self_by_key, other_by_key, union) ==
    LET joined0 == [i \in 1..Len(self_by_key) |->
                        [addr |-> Len(h) + i, key |-> self_by_key[i].key]]
    IN Let(h \o [i \in 1..Len(self_by_key) |-> h[self_by_key[i].addr]],
           LAMBDA h3 :
               Let(IF union THEN dict_update(joined0, other_by_key) ELSE joined0,
                   LAMBDA joined :
                       Let(overlay(h3, joined, other_by_key, self_by_key),
                           LAMBDA h4 : merge_result(h4, joined))))

merge_join_mut_nounion(h, self_by_key, other_by_key, union) ==
    LET joined0 == [i \in 1..Len(self_by_key) |->
                        [addr |-> Len(h) + i, key |-> self_by_key[i].key]]
    IN Let(h \o [i \in 1..Len(self_by_key) |-> h[self_by_key[i].addr]],
           LAMBDA h3 :
               Let(overlay(h3, joined0, self_by_key, other_by_key),
                   LAMBDA h4 : merge_result(h4, joined0)))

merge_join_mut_otherfirst(h, self_by_key, other_by_key, union) ==
    LET joined0 == [i \in 1..Len(self_by_key) |->
                        [addr |-> Len(h) + i, key |-> self_by_key[i].key]]
    IN Let(h \o [i \in 1..Len(self_by_key) |-> h[self_by_key[i].addr]],
           LAMBDA h3 :
               Let(IF union THEN dict_update(other_by_key, joined0) ELSE joined0,
                   LAMBDA joined :
                       Let(overlay(h3, joined, self_by_key, other_by_key),
                           LAMBDA h4 : merge_result(h4, joined))))

\* merge from joined = copy.deepcopy(self_by_key) on: every entry of self is
\* copied to a fresh address, joined.update(other_by_key) under union, the
\* overlay, and the new bibliography.
merge_join(h, self_by_key, other_by_key, union) ==
    LET joined0 == [i \in 1..Len(self_by_key) |->
                        [addr |-> Len(h) + i, key |-> self_by_key[i].key]]
    IN Let(h \o [i \in 1..Len(self_by_key) |-> h[self_by_key[i].addr]],
           LAMBDA h3 :
               Let(IF union THEN dict_update(joined0, other_by_key) ELSE joined0,
                   LAMBDA joined :
                       Let(overlay(h3, joined, self_by_key, other_by_key),
                           LAMBDA h4 : merge_result(h4, joined))))

merge_mut_selfonly(h, selfAddrs, otherAddrs, keys, union) ==
    Let(bib_make_key(h, selfAddrs, keys), LAMBDA k1 :
        IF k1.err # "none" THEN Raised(k1.heap, k1.err, k1.info)
        ELSE Let(bib_make_key(k1.heap, otherAddrs, keys), LAMBDA k2 :
                 Let(by_key(k2.heap, selfAddrs), LAMBDA self_by_key :
                     Let(by_key(k2.heap, otherAddrs), LAMBDA other_by_key :
                         merge_join(k2.heap, self_by_key, other_by_key, union)))))

\* Bibliography.merge(other, *keys, union=union) on the heap h, self and
\* other given by their _data. ok: the call returned, and result is the new
\* bibliography's _data.
merge(h, selfAddrs, otherAddrs, keys, union) ==
    Let(bib_make_key(h, selfAddrs, keys), LAMBDA k1 :
        IF k1.err # "none" THEN Raised(k1.heap, k1.err, k1.info)
        ELSE Let(bib_make_key(k1.heap, otherAddrs, keys), LAMBDA k2 :
                 IF k2.err # "none" THEN Raised(k2.heap, k2.err, k2.info)
                 ELSE Let(by_key(k2.heap, selfAddrs), LAMBDA self_by_key :
                          Let(by_key(k2.heap, otherAddrs), LAMBDA other_by_key :
                              merge_join(k2.heap, self_by_key, other_by_key, union)))))

\* ---------------------------------------------------------------- actions

\* x.add_fields(**kargs)
AddFields(x, kargs) ==
    CanCall /\ \E r \in {add_fields(heap, data[x], kargs)} :
       /\ Record([Call("add_fields", x) EXCEPT !.key = kargs[1].key,
                                               !.func = kargs[1].func],
                 r.err, <<>>)
       /\ heap' = r.heap
       /\ data' = data

\* x.del_fields(*fields)
DelFields(x, fields) ==
    /\ CanCall
    /\ Record([Call("del_fields", x) EXCEPT !.fields = fields], "none", <<>>)
    /\ heap' = del_fields(heap, data[x], fields)
    /\ data' = data

\* x.make_key(*keys)
MakeKey(x, keys) ==
    CanCall /\ \E r \in {bib_make_key(heap, data[x], keys)} :
       /\ Record([Call("make_key", x) EXCEPT !.keys = keys], r.err, r.info)
       /\ heap' = r.heap
       /\ data' = data

\* r = x.merge(y, *keys, union=u): r is bound only when merge returns
Merge(x, y, keys, u) ==
    CanCall /\ \E r \in {merge(heap, data[x], data[y], keys, u)} :
       /\ Record([Call("merge", x) EXCEPT !.other = y, !.keys = keys, !.union = u],
                 r.err, r.info)
       /\ IF r.ok
          THEN Commit(r.heap, [data EXCEPT !["r"] = r.result])
          ELSE heap' = SubSeq(r.heap, 1, Len(heap)) /\ data' = data

MergeCmd_mut_idkey(x, y, u, keep_key) ==
    CanCall /\ \E r \in {merge(heap, data[x], data[y], <<"ID">>, u)} :
       /\ Record([Call("merge", x) EXCEPT !.other = y, !.union = u,
                                          !.keep_key = keep_key],
                 r.err, r.info)
       /\ IF r.ok
          THEN Commit(r.heap, [data EXCEPT !["r"] = r.result])
          ELSE heap' = SubSeq(r.heap, 1, Len(heap)) /\ data' = data

\* The merge command's step on two loaded bibliographies:
\* r = x.merge(y, union=u, keep_key=keep_key), with no key field.
MergeCmd(x, y, u, keep_key) ==
    CanCall /\ \E r \in {merge(heap, data[x], data[y], <<>>, u)} :
       /\ Record([Call("merge", x) EXCEPT !.other = y, !.union = u,
                                          !.keep_key = keep_key],
                 r.err, r.info)
       /\ IF r.ok
          THEN Commit(r.heap, [data EXCEPT !["r"] = r.result])
          ELSE heap' = SubSeq(r.heap, 1, Len(heap)) /\ data' = data

\* r = x.union(y): self.merge(other, 'ID', union=True)
Union(x, y) ==
    CanCall /\ \E r \in {merge(heap, data[x], data[y], <<"ID">>, TRUE)} :
       /\ Record([Call("union", x) EXCEPT !.other = y, !.keys = <<"ID">>,
                                          !.union = TRUE],
                 r.err, r.info)
       /\ IF r.ok
          THEN Commit(r.heap, [data EXCEPT !["r"] = r.result])
          ELSE heap' = SubSeq(r.heap, 1, Len(heap)) /\ data' = data

\* ---------------------------------------------------------------- mrtools

\* l[i::n], i counted from 0
stride(l, i, n) ==
    IF i >= Len(l) THEN <<>>
    ELSE [j \in 1..((Len(l) - i + n - 1) \div n) |-> l[i + 1 + (j - 1) * n]]

\* list(zip(*lists)): as many tuples as the shortest list has elements
zip(lists) ==
    IF lists = <<>> THEN <<>>
    ELSE LET shortest == CHOOSE m \in {Len(lists[i]) : i \in 1..Len(lists)} :
                             \A i \in 1..Len(lists) : m <= Len(lists[i])
         IN [j \in 1..shortest |-> [i \in 1..Len(lists) |-> lists[i][j]]]

chunk_list_mut_norest(l, n) ==
    IF n <= 0 THEN [err |-> "AssertionError", val |-> <<>>]
    ELSE IF n > Len(l) THEN [err |-> "none", val |-> <<l>>]
    ELSE [err |-> "none", val |-> zip([i \in 1..n |-> stride(l, i - 1, n)])]

\* chunk_list(l, n) of the command-line tool, or the error it raises
chunk_list(l, n) ==
    IF n <= 0 THEN [err |-> "AssertionError", val |-> <<>>]
    ELSE IF n > Len(l) THEN [err |-> "none", val |-> <<l>>]
    ELSE LET l_ == zip([i \in 1..n |-> stride(l, i - 1, n)])
         IN [err |-> "none",
             val |-> IF Len(l) % n > 0
                     THEN Append(l_, SubSeq(l, Len(l) - (Len(l) % n) + 1, Len(l)))
                     ELSE l_]

\* chunks = chunk_list(l, n)
ChunkList ==
    /\ mr.fn = "chunk_list" /\ mr.pc = "call"
    /\ \E r \in {chunk_list(mr.l, mr.n)} :
          mr' = [mr EXCEPT !.pc = "done", !.err = r.err, !.ret = r.val]
    /\ UNCHANGED bibs

\* A link to page p of the search result, as it stands in a page (relative
\* to the site), and the URL of that page.
Link(p) == [absolute |-> FALSE, page |-> p]
Url(p) == [absolute |-> TRUE, page |-> p]

\* 'http://www.ams.org/%s' % href
Absolute(href) == [absolute |-> TRUE, page |-> href.page]

\* requests.get(url).text: the source of the page at url
Source(url) == <<"source", url.page>>

\* soup.find('a', string='Next'): every page but the last has the link to
\* the page after it
HasNext(pages, url) == url.page < pages
NextHref(url) == Link(url.page + 1)

\* One turn of the loop of crawl: the page at url is fetched and its source
\* kept; without a 'Next' link the loop is left and crawl returns, with one
\* the link is kept and followed.
CrawlStep ==
    /\ mr.fn = "crawl" /\ mr.pc = "loop"
    /\ \E sites \in {Append(mr.sites, Source(mr.url))} :
          IF ~ HasNext(mr.pages, mr.url)
          THEN mr' = [mr EXCEPT !.sites = sites, !.pc = "done"]
          ELSE mr' = [mr EXCEPT !.sites = sites,
                                !.urls = Append(mr.urls, NextHref(mr.url)),
                                !.url = Absolute(NextHref(mr.url))]
    /\ UNCHANGED bibs

\* ----------------------------------------------------------------- inputs

Entry(et, id) == [f \in {"ENTRYTYPE", "ID"} |-> IF f = "ID" THEN id ELSE et]
WithYear(e, yr) == update(e, [f \in {"year"} |-> yr])

Ids == {<<"x">>, <<"y">>}

\* The entries of the bibliographies at the start: of type et, with or
\* without a year.
FixEntries(et) ==
    {Entry(et, id) : id \in Ids} \cup {WithYear(Entry(et, id), <<"1">>) : id \in Ids}

\* Lists of at most two such entries with distinct IDs.
FixLists(et) ==
    {<<>>} \cup {<<e>> : e \in FixEntries(et)}
           \cup {l \in {<<e1, e2>> : e1 \in FixEntries(et), e2 \in FixEntries(et)} :
                      l[1]["ID"] # l[2]["ID"]}

\* Arguments of the constructor, the setter and load in Spec: a list the
\* setter accepts and one it rejects.
SomeArgs ==
    {ListArg(<<Dict(Entry(<<"c">>, <<"y">>)), Dict(WithYear(Entry(<<"c">>, <<"x">>), <<"1">>))>>),
     ListArg(<<Dict(Entry(<<"c">>, <<"x">>)), Dict(Entry(<<"c">>, <<"x">>))>>)}

\* What a reader may return in Spec.
LoadArgs == {ListArg(<<Dict(Entry(<<"c">>, <<"x">>))>>)}

Readers == {"yaml", "bibtex"}

KeyLists == {<<>>, <<"ID">>, <<"year">>, <<"ID", "year">>}

SomeKargs ==
    {<<[func |-> ConstFunc(<<"x">>), key |-> "ID"]>>,
     <<[func |-> FieldFunc("year"), key |-> "ID"]>>,
     <<[func |-> FieldFunc("ID"), key |-> "year"]>>}

\* Receiver and argument of merge and union: two different bibliographies.
Pairs == {p \in Bibs \X Bibs : p[1] # p[2]}

SomeFields == {{"year"}, {"ID", MERGEKEY}}

\* The elements of the lists of SpecData: not a dict, a dict without
\* ENTRYTYPE, a dict without ID, and two entries.
Items ==
    {NonDict,
     Dict([f \in {"ID"} |-> <<"x">>]),
     Dict([f \in {"ENTRYTYPE"} |-> <<"c">>]),
     Dict(Entry(<<"c">>, <<"x">>)),
     Dict(Entry(<<"c">>, <<"y">>))}

RECURSIVE ListsUpTo(_)
ListsUpTo(n) ==
    IF n = 0 THEN {<<>>}
    ELSE LET shorter == ListsUpTo(n - 1)
         IN shorter \cup {Append(l, e) : l \in {q \in shorter : Len(q) = n - 1}, e \in Items}

\* Every argument of SpecData: a list of at most MaxLen elements, or an
\* object that is no list (falsy like None, or truthy like 'Katze').
AllArgs == {ListArg(l) : l \in ListsUpTo(MaxLen)} \cup {OtherArg(TRUE), OtherArg(FALSE)}

\* ---------------------------------------------------------- specification

StartBibs(la, lb, n) ==
    /\ heap = la \o lb
    /\ data = [x \in Bibs |->
                  IF x = "a" THEN [i \in 1..Len(la) |-> i]
                  ELSE IF x = "b" THEN [i \in 1..Len(lb) |-> Len(la) + i]
                  ELSE <<>>]
    /\ op = Call("init", "r")
    /\ err = "none"
    /\ errInfo = <<>>
    /\ preHeap = heap
    /\ preData = data
    /\ nops = 0
    /\ maxCalls = n

StartWith(la, lb, n) == StartBibs(la, lb, n) /\ mr = NoCall

Start(la, lb) == StartWith(la, lb, MaxOps)

\* a = Bibliography(la); b = Bibliography(lb); r = Bibliography()
Init == \E la \in FixLists(<<"a">>), lb \in FixLists(<<"b">>) : Start(la, lb)

Next ==
    \/ \E x \in Bibs, arg \in SomeArgs : Construct(x, arg)
    \/ \E x \in Bibs, arg \in SomeArgs : SetData(x, arg)
    \/ \E x \in Bibs, arg \in LoadArgs, reader \in Readers : Load(x, reader, arg)
    \/ \E x \in Bibs, kargs \in SomeKargs : AddFields(x, kargs)
    \/ \E x \in Bibs, fields \in SomeFields : DelFields(x, fields)
    \/ \E x \in Bibs, keys \in KeyLists : MakeKey(x, keys)
    \/ \E p \in Pairs, keys \in KeyLists, u \in BOOLEAN : Merge(p[1], p[2], keys, u)
    \/ \E p \in Pairs : Union(p[1], p[2])
    \/ \E p \in Pairs, u \in BOOLEAN, keep_key \in BOOLEAN :
          MergeCmd(p[1], p[2], u, keep_key)

Spec == Init /\ [][Next]_vars

\* The constructor, the setter and load on their own, with every argument
\* up to MaxLen elements, on one bibliography.
InitData ==
    \E la \in {<<>>, <<Entry(<<"a">>, <<"x">>)>>,
                <<Entry(<<"a">>, <<"y">>), Entry(<<"a">>, <<"x">>)>>} : Start(la, <<>>)

NextData ==
    \/ \E arg \in AllArgs : Construct("a", arg)
    \/ \E arg \in AllArgs : SetData("a", arg)
    \/ \E arg \in AllArgs, reader \in Readers : Load("a", reader, arg)

SpecData == InitData /\ [][NextData]_vars

\* Calls on a, one after the other, and left-update merges of a with b.
InitSeq == \E la \in FixLists(<<"a">>), lb \in FixLists(<<"b">>) : StartWith(la, lb, MaxSeq)

NextSeq ==
    \/ \E kargs \in SomeKargs : AddFields("a", kargs)
    \/ \E fields \in SomeFields : DelFields("a", fields)
    \/ \E keys \in KeyLists : Merge("a", "b", keys, FALSE)

SpecSeq == InitSeq /\ [][NextSeq]_vars

\* make_key on two records whose ID and year may hold a hyphen, the year
\* may be empty or missing.
KeyIds == {<<"x">>, <<"y">>, <<"x", "-">>}
KeyYears == {<<>>, <<"1">>, <<"-">>, <<"-", "1">>}
KeyEntries ==
    {Entry(<<"a">>, id) : id \in KeyIds}
       \cup {WithYear(Entry(<<"a">>, id), yr) : id \in KeyIds, yr \in KeyYears}
KeyFields == {<<>>, <<"ID">>, <<"year">>, <<"ID", "year">>, <<"year", "ID">>,
              <<"year", "ID", "year">>}

InitKey ==
    \E e1 \in KeyEntries, e2 \in KeyEntries :
        e1["ID"] # e2["ID"] /\ Start(<<e1, e2>>, <<>>)

NextKey == \E keys \in KeyFields : MakeKey("a", keys)

SpecKey == InitKey /\ [][NextKey]_vars

\* The texts of SpecText. Names as they stand between the ' and ' of an
\* author field: plain, with a comma, with an alias in parentheses, with an
\* accent (as a letter and as a LaTeX command), with a particle, empty, a
\* junior alone, and one that ends in ' and'.
RawNames ==
    {<<"H", "o", "r", "n">>,
     <<"U", "w", "e", " ", "B", "a", "h">>,
     <<"B", "a", "h", ",", " ", "U", ".">>,
     <<"A", "b", " ", "(", "H", "a", ")", ",", " ", "U">>,
     <<"A", "u", "eacute">>,
     <<"B", "backslash", "'", "e", "n">>,
     <<"v", "a", "n", " ", "A", "b">>,
     <<>>,
     <<" ", "H", "a">>,
     <<"j", "r">>,
     <<"U", " ", "a", "n", "d">>}

RECURSIVE SeqsUpTo(_, _)
\* The sequences of at most n elements of S.
SeqsUpTo(S, n) ==
    IF n = 0 THEN {<<>>}
    ELSE LET shorter == SeqsUpTo(S, n - 1)
         IN shorter \cup {Append(l, e) : l \in {q \in shorter : Len(q) = n - 1}, e \in S}

RawAuthors == {join(AuthorSep, l) : l \in SeqsUpTo(RawNames, MaxAuthors) \ {<<>>}}

\* People with a first name, maybe a middle name, and a last name.
FirstNames == {<<"U", "w", "e">>, <<"A", "l">>}
MiddleNames == {<<>>, <<"B", "o">>}
LastNames == {<<"H", "o", "r", "n">>, <<"B", "a", "h">>}
People == [first : FirstNames, middle : MiddleNames, last : LastNames]

\* The three ways to write a person: 'First Middle Last', 'Last, F.' and
\* 'Last, First Middle'.
Formats == {"first last", "last, f.", "last, first middle"}

given(p) == IF p.middle = <<>> THEN p.first ELSE p.first \o <<" ">> \o p.middle

written(fmt, p) ==
    IF fmt = "first last" THEN given(p) \o <<" ">> \o p.last
    ELSE IF fmt = "last, f." THEN p.last \o <<",", " ", p.first[1], ".">>
    ELSE p.last \o <<",", " ">> \o given(p)

\* The author field of the people l, all written the way fmt.
author_field(fmt, l) == join(AuthorSep, [i \in 1..Len(l) |-> written(fmt, l[i])])

PeopleLists == SeqsUpTo(People, MaxAuthors) \ {<<>>}

\* Every list of people in every format, with the author field it makes.
Written ==
    {[field |-> author_field(fmt, l), fmt |-> fmt, people |-> l] :
        fmt \in Formats, l \in PeopleLists}

WrittenAuthors == {w.field : w \in Written}

\* What a title is made of: letters, a digit, whitespace, an underscore,
\* the formula marker, a formula, braces, punctuation, accents.
TitlePieces ==
    {<<"$", "b", "_", "1", "$">>, <<"A">>, <<"b">>, <<"1">>, <<" ">>, <<"_">>, <<"$">>, <<"{">>, <<"}">>, <<"(">>,
     <<"backslash", "'", "e">>, <<"eacute">>, <<"backslash", "s", "s">>}

RECURSIVE concat(_)
concat(l) == IF l = <<>> THEN <<>> ELSE l[1] \o concat(Tail(l))

Titles == {concat(l) : l \in SeqsUpTo(TitlePieces, MaxPieces)}

TextKargs ==
    {<<[func |-> NormAuthorFunc, key |-> "normauthor"]>>,
     <<[func |-> NormTitleFunc, key |-> "normtitle"]>>}

\* One bibliography with one record, that has an author or a title, and
\* add_fields(normauthor=norm_author) or add_fields(normtitle=norm_title)
\* on it.
InitText ==
    \/ \E s \in RawAuthors \cup WrittenAuthors :
          Start(<<update(Entry(<<"a">>, <<"x">>), [f \in {"author"} |-> s])>>, <<>>)
    \/ \E s \in Titles :
          Start(<<update(Entry(<<"a">>, <<"x">>), [f \in {"title"} |-> s])>>, <<>>)

NextText == \E kargs \in TextKargs : AddFields("a", kargs)

SpecText == InitText /\ [][NextText]_vars

\* chunk_list on every list of at most MaxList elements, with every chunk
\* size up to MaxChunk, and with the size 0 that the assertion refuses.
ChunkElems == {"p", "q"}

InitChunk ==
    /\ StartBibs(<<>>, <<>>, 0)
    /\ \E l \in SeqsUpTo(ChunkElems, MaxList), n \in 0..MaxChunk :
          mr = [err |-> "none", fn |-> "chunk_list", l |-> l, n |-> n,
                pc |-> "call", ret |-> <<>>]

NextChunk == ChunkList

SpecChunk == InitChunk /\ [][NextChunk]_vars

\* crawl(url) with the URL of some page of a search result that is split
\* into at most MaxPages pages: sites = [], urls = [url].
InitCrawl ==
    /\ StartBibs(<<>>, <<>>, 0)
    /\ \E pages \in 1..MaxPages : \E k \in 1..pages :
          mr = [fn |-> "crawl", given |-> Url(k), pages |-> pages, pc |-> "loop",
                sites |-> <<>>, url |-> Url(k), urls |-> <<Url(k)>>]

NextCrawl == CrawlStep

\* The loop goes on as long as it can.
SpecCrawl == InitCrawl /\ [][NextCrawl]_vars /\ WF_vars(NextCrawl)

\* ----------------------------------------------------------------- claims

IsMerge == op.name \in {"merge", "union"}
Returned == err = "none"

\* The entries of x when the last call started, and now.
PreRecs(x) == Recs(preHeap, preData, x)
NowRecs(x) == Recs(heap, data, x)

\* The merge key of each entry of x when the last call started.
PreKeys(x) == [i \in 1..Len(preData[x]) |-> make_key(PreRecs(x)[i], op.keys)]

NoKey(e) == del_keys(e, {MERGEKEY})

\* ra's value for every field ra defines, otherwise rb's.
LeftOverRight(ra, rb) ==
    [f \in (DOMAIN ra) \cup (DOMAIN rb) |-> IF f \in DOMAIN ra THEN ra[f] ELSE rb[f]]

\* The inputs of the last merge that are still bound to their object (r is
\* rebound to the result when merge returns).
KeptInputs == {op.self, op.other} \ (IF Returned THEN {"r"} ELSE {})

\* C1: after merge or union returns, every entry of the receiver and of the
\* argument has exactly the fields and values it had before the call.
C1_MergeLeavesInputs ==
    (IsMerge /\ Returned) => \A x \in KeptInputs : NowRecs(x) = PreRecs(x)

\* C2: the bibliography returned by merge or union shares no entry with its
\* inputs, so that an in-place call on one cannot change the other.
C2_ResultSharesNoEntry ==
    (IsMerge /\ Returned) =>
        \A x \in KeptInputs : Range(data["r"]) \cap Range(data[x]) = {}

\* What the result of the last merge has to hold: for a key of both sides
\* the receiver's entry laid over the argument's, for a key of one side that
\* side's entry, each without the key field.
ExpectedBoth ==
    {NoKey(LeftOverRight(PreRecs(op.self)[i], PreRecs(op.other)[j])) :
        <<i, j>> \in {q \in (1..Len(preData[op.self])) \X (1..Len(preData[op.other])) :
                        PreKeys(op.self)[q[1]] = PreKeys(op.other)[q[2]]}}
ExpectedLeftOnly ==
    {NoKey(PreRecs(op.self)[i]) :
        i \in {n \in 1..Len(preData[op.self]) :
                 PreKeys(op.self)[n] \notin Range(PreKeys(op.other))}}
ExpectedRightOnly ==
    {NoKey(PreRecs(op.other)[j]) :
        j \in {n \in 1..Len(preData[op.other]) :
                 PreKeys(op.other)[n] \notin Range(PreKeys(op.self))}}

\* C3: for a merge key of both sides the result's entry has the receiver's
\* value for every field the receiver defines and otherwise the argument's,
\* and no other field; for a key of one side it is that side's entry; the
\* key field is stripped; the same under union=True and union=False.
C3_FieldPrecedence ==
    (IsMerge /\ Returned) =>
        Range(NowRecs("r")) =
            ExpectedBoth \cup ExpectedLeftOnly
                \cup (IF op.union THEN ExpectedRightOnly ELSE {})

C3_Witness ==
    /\ IsMerge /\ Returned
    /\ \E i \in 1..Len(preData[op.self]), j \in 1..Len(preData[op.other]) :
          /\ PreKeys(op.self)[i] = PreKeys(op.other)[j]
          /\ \E f \in (DOMAIN PreRecs(op.self)[i]) \cap (DOMAIN PreRecs(op.other)[j]) :
                PreRecs(op.self)[i][f] # PreRecs(op.other)[j][f]
          /\ (DOMAIN PreRecs(op.other)[j]) \ (DOMAIN PreRecs(op.self)[i]) # {}

ResultKeys ==
    Range(PreKeys(op.self)) \cup (IF op.union THEN Range(PreKeys(op.other)) ELSE {})

\* Entries with ENTRYTYPE and ID, the IDs pairwise distinct.
WellFormed(recs) ==
    /\ \A i \in 1..Len(recs) : {"ENTRYTYPE", "ID"} \subseteq DOMAIN recs[i]
    /\ \A i \in 1..Len(recs), j \in 1..Len(recs) : i # j => recs[i]["ID"] # recs[j]["ID"]

IdsOf(recs) == {recs[i]["ID"] : i \in 1..Len(recs)}

\* C4: when merge returns, the result holds one entry per merge key of the
\* receiver or the argument under union=True, and one per merge key of the
\* receiver under union=False; the union by ID of two bibliographies with
\* disjoint IDs returns, and holds the |a| + |b| entries of a and of b.
C4_ResultKeySet ==
    /\ (IsMerge /\ Returned) => Len(data["r"]) = Cardinality(ResultKeys)
    /\ (/\ IsMerge /\ op.union /\ op.keys = <<"ID">>
        /\ WellFormed(PreRecs(op.self)) /\ WellFormed(PreRecs(op.other))
        /\ IdsOf(PreRecs(op.self)) \cap IdsOf(PreRecs(op.other)) = {})
       => /\ Returned
          /\ Len(data["r"]) = Len(preData[op.self]) + Len(preData[op.other])
          /\ Range(NowRecs("r")) =
                {NoKey(e) : e \in Range(PreRecs(op.self)) \cup Range(PreRecs(op.other))}

C4_Witness ==
    /\ op.name = "merge" /\ ~ op.union /\ Returned
    /\ Len(data["r"]) > 0
    /\ Range(PreKeys(op.other)) \ Range(PreKeys(op.self)) # {}

\* C5: the IDs of the entries of a bibliography are pairwise distinct, in
\* every state.
C5_IdsDistinct ==
    \A x \in Bibs : \A i \in 1..Len(data[x]), j \in 1..Len(data[x]) :
        (i # j /\ "ID" \in DOMAIN NowRecs(x)[i] /\ "ID" \in DOMAIN NowRecs(x)[j])
            => NowRecs(x)[i]["ID"] # NowRecs(x)[j]["ID"]

\* C6: every entry of a bibliography has a non-empty ENTRYTYPE and a
\* non-empty ID, in every state.
C6_MandatoryFields ==
    \A x \in Bibs : \A i \in 1..Len(data[x]) :
        /\ "ENTRYTYPE" \in DOMAIN NowRecs(x)[i] /\ NowRecs(x)[i]["ENTRYTYPE"] # <<>>
        /\ "ID" \in DOMAIN NowRecs(x)[i] /\ NowRecs(x)[i]["ID"] # <<>>

IsAssign == op.name \in {"set_data", "init", "load"}

\* C7: when the data setter raises (a type error, a structural error or the
\* duplicate-ID error) the stored sequence is what it was, and a constructor
\* call that raises binds no bibliography.
C7_AllOrNothing ==
    (IsAssign /\ ~ Returned) => (heap = preHeap /\ data = preData)

C7_Witness ==
    /\ op.name = "set_data" /\ err = "DupIdError"
    /\ Len(preData[op.self]) > 0
    /\ NowRecs(op.self) # ItemRecs(op.arg)

\* The IDs that occur more than once among the dicts of a list.
RepeatedIds(items) ==
    {k \in {items[i].rec["ID"] : i \in {n \in 1..Len(items) : "ID" \in DOMAIN items[n].rec}} :
        Cardinality({i \in 1..Len(items) :
                        "ID" \in DOMAIN items[i].rec /\ items[i].rec["ID"] = k}) > 1}

Malformed(item) ==
    ~ item.isdict \/ "ENTRYTYPE" \notin DOMAIN item.rec \/ "ID" \notin DOMAIN item.rec

\* C8: the setter raises a type error when the argument is no list,
\* otherwise a structural error when an element is no dict or lacks
\* ENTRYTYPE or ID, otherwise the duplicate-ID error when two elements share
\* an ID, and otherwise stores the argument's entries in the same order.
C8_ValidationOrder ==
    op.name = "set_data" =>
        IF op.arg.kind # "list" THEN err = "TypeError"
        ELSE IF \E i \in 1..Len(op.arg.items) : Malformed(op.arg.items[i])
        THEN err = "StructError"
        ELSE IF RepeatedIds(op.arg.items) # {} THEN err = "DupIdError"
        ELSE Returned /\ NowRecs(op.self) = ItemRecs(op.arg)

C8_Witness ==
    /\ op.name = "set_data" /\ err = "StructError"
    /\ RepeatedIds(op.arg.items) # {}

RepeatedKeys ==
    {k \in Range(PreKeys(op.self)) :
        Cardinality({i \in 1..Len(preData[op.self]) : PreKeys(op.self)[i] = k}) > 1}

\* C10: make_key raises the duplicate-key error exactly when two entries
\* get the same composite key, the error lists the keys that occur more than
\* once, and when it returns every entry's KEY is its composite key.
C10_MakeKeyDuplicates ==
    op.name = "make_key" =>
        /\ err \in {"none", "DupKeyError"}
        /\ (err = "DupKeyError") <=> (RepeatedKeys # {})
        /\ err = "DupKeyError" => Range(errInfo) = RepeatedKeys
        /\ Returned => \A i \in 1..Len(data[op.self]) :
                          /\ MERGEKEY \in DOMAIN NowRecs(op.self)[i]
                          /\ NowRecs(op.self)[i][MERGEKEY] = PreKeys(op.self)[i]

C10_Witness ==
    /\ op.name = "make_key" /\ err = "DupKeyError"
    /\ Len(preData[op.self]) = 2
    /\ Len(errInfo) = 2
    /\ errInfo[1] # <<>>

\* The composite keys that occur more than once among the entries x had
\* when the last call started.
RepeatedKeysOf(x) ==
    {k \in Range(PreKeys(x)) :
        Cardinality({i \in 1..Len(preData[x]) : PreKeys(x)[i] = k}) > 1}

\* C11: merge raises the duplicate-key error exactly when two entries of
\* the receiver or two entries of the argument share a merge key, the
\* receiver being checked first (the error then names its keys); a key
\* shared between the receiver and the argument raises nothing.
C11_MergeDuplicateKeys ==
    IsMerge =>
        /\ (err = "DupKeyError") <=>
               (RepeatedKeysOf(op.self) # {} \/ RepeatedKeysOf(op.other) # {})
        /\ err = "DupKeyError" =>
               Range(errInfo) = IF RepeatedKeysOf(op.self) # {}
                                THEN RepeatedKeysOf(op.self)
                                ELSE RepeatedKeysOf(op.other)

C11_Witness ==
    /\ IsMerge /\ err = "DupKeyError"
    /\ RepeatedKeysOf(op.self) = {}
    /\ RepeatedKeysOf(op.other) # {}
    /\ Range(PreKeys(op.self)) \cap Range(PreKeys(op.other)) # {}

\* C12: when make_key raises the duplicate-key error every entry of the
\* bibliography has its composite key in KEY, and no other field of any
\* entry, nor the sequence of entries, has changed.
C12_KeysStayOnError ==
    (op.name = "make_key" /\ err = "DupKeyError") =>
        /\ data = preData
        /\ \A i \in 1..Len(data[op.self]) :
              NowRecs(op.self)[i] =
                  update(PreRecs(op.self)[i], [f \in {MERGEKEY} |-> PreKeys(op.self)[i]])

C12_Witness ==
    /\ op.name = "make_key" /\ err = "DupKeyError"
    /\ \A i \in 1..Len(preData[op.self]) : MERGEKEY \notin DOMAIN PreRecs(op.self)[i]
    /\ \E i \in 1..Len(data[op.self]) : NowRecs(op.self)[i][MERGEKEY] # <<>>

\* C13: no entry of a bibliography returned by merge or union has the
\* field KEY, whatever the keys and the union flag.
C13_ResultHasNoKey ==
    (IsMerge /\ Returned) =>
        \A i \in 1..Len(data["r"]) : MERGEKEY \notin DOMAIN NowRecs("r")[i]

C13_Witness ==
    /\ op.name = "merge" /\ Returned
    /\ Len(data["r"]) = 2
    /\ \E x \in KeptInputs : \E i \in 1..Len(data[x]) : MERGEKEY \in DOMAIN NowRecs(x)[i]

\* C14 as stated: when the function handed to add_fields raises a
\* missing-field error on some entry, every entry of the bibliography is as
\* it was before the call.
C14_FailedAddFieldsChangesNothing ==
    (op.name = "add_fields" /\ err = "KeyError") =>
        NowRecs(op.self) = PreRecs(op.self)

\* C15: after add_fields(name=f) returns, every entry has f of the entry as
\* it was in name (an earlier value of name is overwritten), every other
\* field is unchanged, and so are the number and the order of the entries.
C15_AddFieldsEffect ==
    (op.name = "add_fields" /\ Returned) =>
        /\ data = preData
        /\ \A i \in 1..Len(data[op.self]) :
              /\ Apply(op.func, PreRecs(op.self)[i]).ok
              /\ NowRecs(op.self)[i] =
                    update(PreRecs(op.self)[i],
                           [f \in {op.key} |-> Apply(op.func, PreRecs(op.self)[i]).val])

C15_Witness ==
    /\ op.name = "add_fields" /\ Returned
    /\ Len(data[op.self]) = 2
    /\ \E i \in 1..Len(data[op.self]) :
          /\ op.key \in DOMAIN PreRecs(op.self)[i]
          /\ PreRecs(op.self)[i][op.key] # NowRecs(op.self)[i][op.key]

\* The result the last merge has to return, in order: one entry per entry
\* of the receiver, then one per entry of the argument whose key the
\* receiver lacks.
ExpectedLeft ==
    [i \in 1..Len(preData[op.self]) |->
        LET js == {j \in 1..Len(preData[op.other]) :
                      PreKeys(op.other)[j] = PreKeys(op.self)[i]}
        IN NoKey(IF js = {} THEN PreRecs(op.self)[i]
                 ELSE LeftOverRight(PreRecs(op.self)[i],
                                    PreRecs(op.other)[CHOOSE j \in js : TRUE]))]
ExpectedRight ==
    LET only == SelectSeq([j \in 1..Len(preData[op.other]) |-> j],
                          LAMBDA j : PreKeys(op.other)[j] \notin Range(PreKeys(op.self)))
    IN [n \in 1..Len(only) |-> NoKey(PreRecs(op.other)[only[n]])]

\* C16: the bibliography returned by merge or union lists the entries for
\* the receiver's keys first, in the receiver's order, then the entries
\* whose key only the argument has, in the argument's order.
C16_ResultOrder ==
    (IsMerge /\ Returned) =>
        NowRecs("r") = ExpectedLeft \o (IF op.union THEN ExpectedRight ELSE <<>>)

C16_Witness ==
    /\ IsMerge /\ Returned /\ op.union
    /\ Range(PreKeys(op.self)) \cap Range(PreKeys(op.other)) # {}
    /\ Range(PreKeys(op.other)) \ Range(PreKeys(op.self)) # {}
    /\ Len(data["r"]) = 2

\* C20 as stated: the records returned by the merge command's merge keep
\* the field KEY when keep_key is set, and have none when it is not.
C20_KeepKeyControlsKey ==
    (op.name = "merge" /\ Returned) =>
        \A i \in 1..Len(data["r"]) :
            (MERGEKEY \in DOMAIN NowRecs("r")[i]) <=> op.keep_key

\* SpecText: the one record of bibliography a, before and after the call.
TextBefore == PreRecs("a")[1]
TextAfter == NowRecs("a")[1]

NormAuthorCalled ==
    op.name = "add_fields" /\ op.func.kind = "norm_author" /\ "author" \in DOMAIN TextBefore

orders(n) == {p \in [1..n -> 1..n] : \A i, j \in 1..n : p[i] = p[j] => i = j}

\* The author fields that have the name segments of s in another order.
reorderings(s) ==
    LET segs == split(s, AuthorSep)
    IN {join(AuthorSep, [i \in 1..Len(segs) |-> segs[p[i]]]) : p \in orders(Len(segs))}

ascending(tokens) == \A i \in 1..(Len(tokens) - 1) : ~ str_less(tokens[i + 1], tokens[i])

ends_with(s, pat) == Len(s) >= Len(pat) /\ starts_at(s, Len(s) - Len(pat) + 1, pat)

\* norm_author gives every reordering of the author field the outcome the
\* call had, and a signature whose tokens ascend, one space between them.
SameForReorderings ==
    /\ \A s \in reorderings(TextBefore["author"]) :
          LET r == norm_author([f \in {"author"} |-> s])
          IN /\ r.err = err
             /\ Returned => r.val = TextAfter["normauthor"]
    /\ Returned => ascending(split(TextAfter["normauthor"], <<" ">>))

\* C17 as stated: for every record and every permutation of its
\* ' and '-separated name segments, norm_author returns the same signature,
\* whose last-name tokens are in ascending code-point order joined by
\* single spaces.
C17_ReorderingKeepsSignature == NormAuthorCalled => SameForReorderings

\* C17 amended: the same for every record none of whose name segments ends
\* in ' and' (such a segment can only be the last one, and put in front of
\* another it makes a separator of its own); where norm_author raises, it
\* raises for every permutation.
C17_ReorderingKeepsSignatureUnlessAnd ==
    (/\ NormAuthorCalled
     /\ \A i \in DOMAIN split(TextBefore["author"], AuthorSep) :
           ~ ends_with(split(TextBefore["author"], AuthorSep)[i], <<" ", "a", "n", "d">>))
    => SameForReorderings

\* 'Horn and Uwe Bah' gives 'Bah Horn'.
C17_Witness ==
    /\ NormAuthorCalled /\ Returned
    /\ TextBefore["author"] =
          <<"H", "o", "r", "n">> \o AuthorSep \o <<"U", "w", "e", " ", "B", "a", "h">>
    /\ TextAfter["normauthor"] = <<"B", "a", "h", " ", "H", "o", "r", "n">>

\* C18: a list of authors written as 'First Last', as 'Last, F.' or as
\* 'Last, First Middle' gets the signature made of the last names only, in
\* ascending order with one space between them, and the same list written
\* in another of the three formats gets the same signature.
C18_FormatIndependent ==
    NormAuthorCalled =>
        \A w \in Written :
            w.field = TextBefore["author"] =>
                /\ Returned
                /\ LET tokens == split(TextAfter["normauthor"], <<" ">>)
                   IN /\ ascending(tokens)
                      /\ \E p \in orders(Len(w.people)) :
                            tokens = [i \in 1..Len(w.people) |-> w.people[p[i]].last]
                /\ \A fmt \in Formats :
                      norm_author([f \in {"author"} |-> author_field(fmt, w.people)]).val
                         = TextAfter["normauthor"]

\* 'Horn, Uwe Bo and Bah, Al' gives 'Bah Horn'.
C18_Witness ==
    /\ NormAuthorCalled /\ Returned
    /\ TextBefore["author"] =
          author_field("last, first middle",
                       <<[first |-> <<"U", "w", "e">>, last |-> <<"H", "o", "r", "n">>,
                          middle |-> <<"B", "o">>],
                         [first |-> <<"A", "l">>, last |-> <<"B", "a", "h">>,
                          middle |-> <<>>]>>)
    /\ TextAfter["normauthor"] = <<"B", "a", "h", " ", "H", "o", "r", "n">>

NormTitleCalled ==
    op.name = "add_fields" /\ op.func.kind = "norm_title" /\ "title" \in DOMAIN TextBefore

\* C19: for every record with a title, norm_title of the normalized title
\* is the normalized title again, and the normalized title has only
\* lower-case ASCII letters and digits in it.
C19_NormTitleIdempotent ==
    NormTitleCalled =>
        /\ Returned
        /\ LET once == TextAfter["normtitle"]
               twice == norm_title([f \in {"title"} |-> once])
           IN /\ twice.err = "none"
              /\ twice.val = once
              /\ \A i \in 1..Len(once) :
                    once[i] \in Digits \cup (Range(LowerCase) \ NonAscii)

\* A title with a capital, a formula and an accent, that comes out as
\* something else.
C19_Witness ==
    /\ NormTitleCalled /\ Returned
    /\ TextBefore["title"] = <<"A", "$", "b", "_", "1", "$", "eacute">>
    /\ TextAfter["normtitle"] = <<"a", "e">>

\* What c = Bibliography(lc); c.merge(y, *keys, union=u) gives on the heap
\* h with the bindings d: the error, or the records of the result.
LaterMerge(h, d, y, lc, keys, u) ==
    Let(merge(h \o lc, [i \in 1..Len(lc) |-> Len(h) + i], d[y], keys, u), LAMBDA m :
        IF m.ok THEN <<"none", [i \in 1..Len(m.result) |-> m.heap[m.result[i]]]>>
        ELSE <<m.err, <<>>>>)

\* C21: once a merge with b as its argument has returned, c.merge(b) with
\* the same key fields gives, for every collection c and both values of
\* union, what it would have given before that merge (b is not the name
\* the result of that merge is bound to).
C21_LaterMergeIndependent ==
    (op.name = "merge" /\ Returned /\ op.other # "r") =>
        \A lc \in FixLists(<<"c">>), u \in BOOLEAN :
            LaterMerge(heap, data, op.other, lc, op.keys, u)
               = LaterMerge(preHeap, preData, op.other, lc, op.keys, u)

\* The merge keys of x when the last call started are pairwise distinct.
DistinctKeys(x) ==
    \A i, j \in 1..Len(preData[x]) : PreKeys(x)[i] = PreKeys(x)[j] => i = j

\* C22: whenever the merge keys are pairwise distinct within a and within
\* b, a.merge(b, keys, union=False) returns, and the result has one record
\* for each record of a, with a's ID values in a's order.
C22_LeftUpdateKeepsIds ==
    (/\ op.name = "merge" /\ ~ op.union
     /\ DistinctKeys(op.self) /\ DistinctKeys(op.other))
    => /\ Returned
       /\ Len(data["r"]) = Len(preData[op.self])
       /\ \A i \in 1..Len(data["r"]) :
             /\ "ID" \in DOMAIN PreRecs(op.self)[i]
             /\ NowRecs("r")[i]["ID"] = PreRecs(op.self)[i]["ID"]

\* C23: a merge without key fields gives every record the empty key; it
\* raises the duplicate-key error whenever the receiver or the argument
\* holds two or more records, and returns only when each holds at most one.
C23_NoKeyFields ==
    (op.name = "merge" /\ op.keys = <<>>) =>
        /\ \A x \in {op.self, op.other} :
              \A i \in 1..Len(preData[x]) : PreKeys(x)[i] = <<>>
        /\ (Len(preData[op.self]) >= 2 \/ Len(preData[op.other]) >= 2)
              => err = "DupKeyError"
        /\ err = "DupKeyError" => \A i \in 1..Len(errInfo) : errInfo[i] = <<>>
        /\ Returned => Len(preData[op.self]) <= 1 /\ Len(preData[op.other]) <= 1

\* The merge command on a receiver with one record and an argument with
\* two: the duplicate-key error.
C23_Witness ==
    /\ op.name = "merge" /\ op.keys = <<>> /\ op.keep_key
    /\ Len(preData[op.self]) = 1 /\ Len(preData[op.other]) = 2
    /\ err = "DupKeyError"

\* The value of a listed field, a missing field read as the empty text.
Listed(rec, f) == IF f \in DOMAIN rec THEN rec[f] ELSE <<>>

\* The values of up to three listed fields with a hyphen between them.
Hyphenated(rec, keys) ==
    IF Len(keys) = 0 THEN <<>>
    ELSE IF Len(keys) = 1 THEN Listed(rec, keys[1])
    ELSE IF Len(keys) = 2 THEN Listed(rec, keys[1]) \o <<"-">> \o Listed(rec, keys[2])
    ELSE Listed(rec, keys[1]) \o <<"-">> \o Listed(rec, keys[2])
            \o <<"-">> \o Listed(rec, keys[3])

HyphenFree(rec, keys) ==
    \A k \in 1..Len(keys) : \A c \in 1..Len(Listed(rec, keys[k])) :
        Listed(rec, keys[k])[c] # "-"

\* C24: the key of every record is the '-'-join of its values for the
\* listed fields, a missing field read as empty text, whatever the record;
\* two records with hyphen-free values for the listed fields have equal
\* keys if and only if they agree on every listed field.
C24_KeyBuilder ==
    op.name = "make_key" =>
        /\ err \in {"none", "DupKeyError"}
        /\ \A i \in 1..Len(data[op.self]) :
              /\ MERGEKEY \in DOMAIN NowRecs(op.self)[i]
              /\ NowRecs(op.self)[i][MERGEKEY] = Hyphenated(PreRecs(op.self)[i], op.keys)
        /\ \A i, j \in 1..Len(data[op.self]) :
              (HyphenFree(PreRecs(op.self)[i], op.keys)
                  /\ HyphenFree(PreRecs(op.self)[j], op.keys))
              => ((NowRecs(op.self)[i][MERGEKEY] = NowRecs(op.self)[j][MERGEKEY])
                    <=> \A k \in 1..Len(op.keys) :
                           Listed(PreRecs(op.self)[i], op.keys[k])
                              = Listed(PreRecs(op.self)[j], op.keys[k]))

\* Two records, one without a year and one with an empty year, get the
\* same key from the year.
C24_Witness ==
    /\ op.name = "make_key" /\ op.keys = <<"year">> /\ err = "DupKeyError"
    /\ "year" \notin DOMAIN PreRecs("a")[1]
    /\ "year" \in DOMAIN PreRecs("a")[2]
    /\ NowRecs("a")[1][MERGEKEY] = <<>>

ChunkListReturned == mr.fn = "chunk_list" /\ mr.pc = "done" /\ mr.err = "none"

\* C25: for every list l and every n > 0 the chunks of chunk_list(l, n)
\* put one after the other give l, no chunk has more than n elements, and
\* every chunk but the last has n elements.
C25_ChunkList ==
    /\ (mr.fn = "chunk_list" /\ mr.pc = "done" /\ mr.n > 0) => mr.err = "none"
    /\ (ChunkListReturned /\ mr.n > 0) =>
          /\ concat(mr.ret) = mr.l
          /\ \A i \in 1..Len(mr.ret) : Len(mr.ret[i]) <= mr.n
          /\ \A i \in 1..(Len(mr.ret) - 1) : Len(mr.ret[i]) = mr.n

\* Five elements in chunks of two: two full chunks and one of one element.
C25_Witness ==
    /\ ChunkListReturned
    /\ Len(mr.l) = 5 /\ mr.n = 2
    /\ Len(mr.ret) = 3 /\ Len(mr.ret[3]) = 1

CrawlReturned == mr.fn = "crawl" /\ mr.pc = "done"

\* The pages from the one crawl was given to the last one.
PagesFrom(k, last) == [i \in 1..(last - k + 1) |-> k + i - 1]

\* crawl has returned the sources and the URLs of the pages from the given
\* one to the last, one of each for every page.
CrawlResult ==
    LET ps == PagesFrom(mr.given.page, mr.pages)
    IN /\ mr.sites = [i \in 1..Len(ps) |-> Source(Url(ps[i]))]
       /\ mr.urls = [i \in 1..Len(ps) |-> Url(ps[i])]
       /\ Len(mr.sites) = Len(mr.urls)
       /\ mr.url.page = mr.pages

\* C26: crawl started at page k of a search result whose pages are linked
\* by 'Next' links returns, and it returns the sources and the URLs of the
\* pages k, k+1, .., last in that order, one source and one URL for each,
\* having stopped at the first page without a 'Next' link.
C26_Crawl == <>CrawlReturned /\ [](CrawlReturned => CrawlResult)

====
